---- MODULE Spec2Model ----
(***************************************************************************)
(* Row-parallel relaxation kernels of Kokkos_DefaultRelaxationKernelOps.hpp *)
(* (diagonal extraction, damped Jacobi, fine-grain hybrid Gauss-Seidel, for *)
(* the two sparse storage layouts), run by a parallel-for range dispatcher. *)
(*                                                                         *)
(* Scalars are exact rationals <<n, d>> in lowest terms with d > 0; the     *)
(* pair <<0, 0>> stands for the non-finite outcome (inf/NaN) of a division  *)
(* by zero, which every later operation propagates.  C arrays are tuples    *)
(* read through At (0-based); vectors are 0-based functions.                *)
(***************************************************************************)
EXTENDS Integers, Sequences, FiniteSets, TLC

\* Number of right-hand-side columns of the multivectors.
NumRHS == 2
\* Largest number of execute() calls the dispatcher keeps in flight at once.
MaxUnits == 2
\* Number of sweeps the caller runs over the index range.
MaxSweeps == 2

(***************************************************************************)
(* Scalar arithmetic                                                       *)
(***************************************************************************)
Abs(n) == IF n < 0 THEN -n ELSE n

RECURSIVE GCD(_, _)
GCD(a, b) == IF b = 0 THEN a ELSE GCD(b, a % b)

NonFinite == <<0, 0>>

Norm(n, d) ==
  LET s == IF d < 0 THEN -1 ELSE 1
      g == GCD(Abs(n), Abs(d))
  IN  <<(s * n) \div g, (s * d) \div g>>

R(n) == <<n, 1>>

Frac(n, d) == Norm(n, d)

IsFinite(a) == a[2] # 0

RAdd(a, b) ==
  IF ~IsFinite(a) \/ ~IsFinite(b) THEN NonFinite
  ELSE Norm(a[1] * b[2] + b[1] * a[2], a[2] * b[2])

RSub(a, b) ==
  IF ~IsFinite(a) \/ ~IsFinite(b) THEN NonFinite
  ELSE Norm(a[1] * b[2] - b[1] * a[2], a[2] * b[2])

RMul(a, b) ==
  IF ~IsFinite(a) \/ ~IsFinite(b) THEN NonFinite
  ELSE Norm(a[1] * b[1], a[2] * b[2])

RDiv(a, b) ==
  IF ~IsFinite(a) \/ ~IsFinite(b) \/ b[1] = 0 THEN NonFinite
  ELSE Norm(a[1] * b[2], a[2] * b[1])

\* 0-based read of a C array held as a tuple.
At(arr, k) == arr[k + 1]

(***************************************************************************)
(* Kernels                                                                 *)
(***************************************************************************)
ExtractOps == {"ExtractDiagonalOp1", "ExtractDiagonalOp2"}
JacobiOps == {"DefaultJacobiOp1", "DefaultJacobiOp2"}
GaussSeidelOps == {"DefaultFineGrainHybridGaussSeidelOp1",
                   "DefaultFineGrainHybridGaussSeidelOp2"}
Type1Ops == {"ExtractDiagonalOp1", "DefaultJacobiOp1",
             "DefaultFineGrainHybridGaussSeidelOp1"}
Type2Ops == {"ExtractDiagonalOp2", "DefaultJacobiOp2",
             "DefaultFineGrainHybridGaussSeidelOp2"}
Kernels == ExtractOps \cup JacobiOps \cup GaussSeidelOps

(***************************************************************************)
(* Input matrices, Type 1 storage (offsets / inds / vals)                  *)
(***************************************************************************)
\* rows [(0,2),(1,5)], [(0,1),(1,3),(2,1)], [(1,1),(2,4)]
MatTridiag ==
  [numRows |-> 3,
   offsets |-> <<0, 2, 5, 7>>,
   inds    |-> <<0, 1, 0, 1, 2, 1, 2>>,
   vals    |-> <<R(2), R(5), R(1), R(3), R(1), R(1), R(4)>>]

\* diagonal and strictly lower entries only, rows not sorted by column:
\* rows [(0,2)], [(1,4),(0,1)], [(1,1),(0,3),(2,5)]
MatLower ==
  [numRows |-> 3,
   offsets |-> <<0, 1, 3, 6>>,
   inds    |-> <<0, 1, 0, 1, 0, 2>>,
   vals    |-> <<R(2), R(4), R(1), R(1), R(3), R(5)>>]

\* row 0 holds two entries of column 0 after an off-diagonal one, row 1 has
\* no diagonal entry: rows [(1,3),(0,2),(0,9)], [(0,1)]
MatOdd ==
  [numRows |-> 2,
   offsets |-> <<0, 3, 4>>,
   inds    |-> <<1, 0, 0, 0>>,
   vals    |-> <<R(3), R(2), R(9), R(1)>>]

\* a full 2x2 matrix: rows [(0,2),(1,1)], [(0,1),(1,3)]
MatFull ==
  [numRows |-> 2,
   offsets |-> <<0, 2, 4>>,
   inds    |-> <<0, 1, 0, 1>>,
   vals    |-> <<R(2), R(1), R(1), R(3)>>]

Matrices == {MatTridiag, MatLower, MatOdd, MatFull}

\* The matrices on which concurrent, unordered dispatch is explored; the
\* others are run by one sequential unit in increasing index order.
SmallMatrices == {MatOdd, MatFull}

Rows(m) == 0 .. (m.numRows - 1)

\* Entry positions of row r of a Type 1 matrix, in storage order.
RowRange(m, r) == At(m.offsets, r) .. (At(m.offsets, r + 1) - 1)

\* The same matrix in Type 2 storage, rows in the same entry order.  Each
\* row array is one element longer than numEntries[r]: the storage behind a
\* row may extend past its entries.
FormatB(m) ==
  [inds_beg   |-> [r \in Rows(m) |->
                     [k \in 1 .. (Cardinality(RowRange(m, r)) + 1) |->
                        IF k <= Cardinality(RowRange(m, r))
                        THEN At(m.inds, At(m.offsets, r) + k - 1) ELSE r]],
   vals_beg   |-> [r \in Rows(m) |->
                     [k \in 1 .. (Cardinality(RowRange(m, r)) + 1) |->
                        IF k <= Cardinality(RowRange(m, r))
                        THEN At(m.vals, At(m.offsets, r) + k - 1) ELSE R(77)]],
   numEntries |-> [r \in Rows(m) |-> Cardinality(RowRange(m, r))]]

(***************************************************************************)
(* State: the kernel object's fields, the buffers they point to, and the    *)
(* dispatcher's bookkeeping for the index range.                            *)
(***************************************************************************)
VARIABLES
  kernel,          \* which of the six structs the dispatcher runs
  matA,            \* offsets, inds, vals (Type 1 storage)
  matB,            \* inds_beg, vals_beg, numEntries (Type 2 storage)
  numRows,
  diag,            \* the diag buffer
  x,               \* the buffer x points to
  x0,              \* the buffer x0 points to when it is not x itself
  aliased,         \* x0 == x (the same pointer)
  b,
  damping_factor,
  xstride,
  bstride,
  ordered,         \* one sequential unit taking indices in increasing order
  todo,            \* flat indices not yet handed to execute in this sweep
  run,             \* execute calls in flight: index -> [pos, tmp]
  sweep,           \* number of the current sweep
  xpre,            \* x as it was when the current sweep began
  diag0,           \* diag as it was before the extraction began
  writers          \* output slot -> the flat indices whose execute stored to it, in order

vars == <<kernel, matA, matB, numRows, diag, x, x0, aliased, b, damping_factor,
          xstride, bstride, ordered, todo, run, sweep, xpre, diag0, writers>>

fields == <<kernel, matA, matB, numRows, aliased, b, damping_factor,
            xstride, bstride, ordered, diag0>>

(***************************************************************************)
(* The code of execute(), one definition per statement                     *)
(***************************************************************************)
\* const size_t row = i % numRows;
FlatRow(i, nR) == i % nR

\* The column taken from a division by the wrong count.
FlatRhs_WrongCount(i, nR) == i \div (nR + 1)

\* const size_t rhs = (i - row) / numRows;
FlatRhs(i, nR) == (i - FlatRow(i, nR)) \div nR

\* Columns taken to be packed: the stride ignored.
ColBase_Packed(rhs, stride) == rhs * numRows

\* xj = x + rhs * xstride;  bj = b + rhs * bstride;
ColBase(rhs, stride) == rhs * stride

\* for (size_t c=offsets[row]; ...
LoopStart(kern, row) ==
  IF kern \in Type1Ops THEN At(matA.offsets, row) ELSE 0

\* ... c<offsets[row+1]; c++)   /   j<numEntries[row]   /   j != numEntries[row]
InLoop(kern, row, pos) ==
  IF kern \in Type1Ops THEN pos < At(matA.offsets, row + 1)
  ELSE IF kern = "ExtractDiagonalOp2" THEN pos < matB.numEntries[row]
  ELSE pos # matB.numEntries[row]

\* inds[c]   /   curind[j]
EntryInd(kern, row, pos) ==
  IF kern \in Type1Ops THEN At(matA.inds, pos) ELSE At(matB.inds_beg[row], pos)

\* The Type 2 kernels indexing the row's values by the row, not by j.
EntryVal_ByRow(kern, row, pos) ==
  IF kern \in Type1Ops THEN At(matA.vals, pos) ELSE At(matB.vals_beg[row], row)

\* vals[c]   /   curval[j]
EntryVal(kern, row, pos) ==
  IF kern \in Type1Ops THEN At(matA.vals, pos) ELSE At(matB.vals_beg[row], pos)

\* The entry's term added, not subtracted.
Accumulate_Plus(tmp, v, xv) == RAdd(tmp, RMul(v, xv))

\* tmp -= vals[c] * x0j[inds[c]];   /   tmp -= vals[c] * xj[inds[c]];
Accumulate(tmp, v, xv) == RSub(tmp, RMul(v, xv))

\* The Jacobi store without the damping factor.
JacobiValue_Undamped(x0v, omega, tmp, d) == RAdd(x0v, RDiv(tmp, d))

\* xj[row] = x0j[row] + damping_factor*tmp/diag[row];
JacobiValue(x0v, omega, tmp, d) == RAdd(x0v, RDiv(RMul(omega, tmp), d))

\* The Gauss-Seidel store multiplying by diag[row], not dividing.
GaussSeidelValue_Times(xv, omega, tmp, d) == RAdd(xv, RMul(RMul(omega, tmp), d))

\* The Gauss-Seidel store assigning, not adding.
GaussSeidelValue_Assign(xv, omega, tmp, d) == RDiv(RMul(omega, tmp), d)

\* xj[row] += damping_factor*tmp/diag[row];
GaussSeidelValue(xv, omega, tmp, d) == RAdd(xv, RDiv(RMul(omega, tmp), d))

\* The entry loop of the Jacobi and Gauss-Seidel kernels from position pos on,
\* reading the column that starts at base in vec.
RECURSIVE Residual(_, _, _, _, _, _)
Residual(kern, row, pos, tmp, vec, base) ==
  IF InLoop(kern, row, pos)
  THEN Residual(kern, row, pos + 1,
                Accumulate(tmp, EntryVal(kern, row, pos),
                           vec[base + EntryInd(kern, row, pos)]),
                vec, base)
  ELSE tmp

\* The diagonal extractor's loop from position pos on: the value stored to
\* diag[row], or dv (diag[row] as it is) when the loop ends without a store.
RECURSIVE ExtractScan(_, _, _, _)
ExtractScan(kern, row, pos, dv) ==
  IF InLoop(kern, row, pos)
  THEN IF row = EntryInd(kern, row, pos) THEN EntryVal(kern, row, pos)
       ELSE ExtractScan(kern, row, pos + 1, dv)
  ELSE dv

\* ExtractDiagonalOp::execute(row) as one step on the diag buffer.
ExtractExecute(kern, row, dg) ==
  [dg EXCEPT ![row] = ExtractScan(kern, row, LoopStart(kern, row), dg[row])]

\* DefaultJacobiOp::execute(i) as one step: the new content of the x buffer.
JacobiExecute(kern, i, xb, x0b, bb, nR, xs, bs) ==
  LET row == FlatRow(i, nR)
      rhs == FlatRhs(i, nR)
      tmp == Residual(kern, row, LoopStart(kern, row),
                      bb[ColBase(rhs, bs) + row], x0b, ColBase(rhs, xs))
  IN  [xb EXCEPT ![ColBase(rhs, xs) + row] =
         JacobiValue(x0b[ColBase(rhs, xs) + row], damping_factor, tmp, diag[row])]

\* DefaultFineGrainHybridGaussSeidelOp::execute(i) as one step.
GaussSeidelExecute(kern, i, xb, bb, nR, xs, bs) ==
  LET row == FlatRow(i, nR)
      rhs == FlatRhs(i, nR)
      tmp == Residual(kern, row, LoopStart(kern, row),
                      bb[ColBase(rhs, bs) + row], xb, ColBase(rhs, xs))
  IN  [xb EXCEPT ![ColBase(rhs, xs) + row] =
         GaussSeidelValue(xb[ColBase(rhs, xs) + row], damping_factor, tmp, diag[row])]

(***************************************************************************)
(* Inputs                                                                  *)
(***************************************************************************)
\* Content of the caller's diag buffer before the extraction: zeroed, or
\* whatever the memory held.
DiagInputs(m) == {[r \in Rows(m) |-> R(0)], [r \in Rows(m) |-> R(7)]}

Dampings == {R(0), R(1), Frac(1, 2)}

\* Element k of a vector input of the given kind.
PatternAt(kind, k) ==
  CASE kind = "zero" -> R(0)
    [] kind = "one"  -> R(1)
    [] kind = "ramp" -> R(k + 1)
    [] kind = "down" -> R(3 - 2 * k)

Buffer(len, kind) == [k \in 0 .. (len - 1) |-> PatternAt(kind, k)]

\* Vector inputs: the strides exceed numRows by pad (x, x0) and 1 - pad (b),
\* so one buffer is packed and the other padded; iter is the iterate the
\* sweep reads (x0 for Jacobi, x for Gauss-Seidel).
Layouts == {[pad |-> 0, rhs |-> "one", iter |-> "zero"],
            [pad |-> 1, rhs |-> "down", iter |-> "ramp"]}


\* The diag the sweeps are given: the extractor's result on the caller's buffer.
RECURSIVE ExtractAll(_, _, _)
ExtractAll(kern, n, dg) ==
  IF n = 0 THEN dg ELSE ExtractExecute(kern, n - 1, ExtractAll(kern, n - 1, dg))

Range(kern, nR) == IF kern \in ExtractOps THEN 0 .. (nR - 1) ELSE 0 .. (nR * NumRHS - 1)

InitCommon(m) ==
  /\ matA = m
  /\ matB = FormatB(m)
  /\ numRows = m.numRows
  /\ ordered \in (IF m \in SmallMatrices THEN BOOLEAN ELSE {TRUE})
  /\ todo = Range(kernel, m.numRows)
  /\ run = <<>>
  /\ sweep = 1

InitExtract ==
  \E m \in Matrices :
    /\ kernel \in ExtractOps
    /\ InitCommon(m)
    /\ diag0 \in DiagInputs(m)
    /\ diag = diag0
    /\ x = <<>> /\ x0 = <<>> /\ b = <<>> /\ xpre = <<>>
    /\ aliased = FALSE
    /\ damping_factor = R(1)
    /\ xstride = m.numRows /\ bstride = m.numRows
    /\ writers = [r \in Rows(m) |-> <<>>]

InitVectors(m, lay) ==
  /\ InitCommon(m)
  /\ xstride = m.numRows + lay.pad
  /\ bstride = m.numRows + 1 - lay.pad
  /\ \E d0 \in DiagInputs(m) :
       /\ diag = ExtractAll("ExtractDiagonalOp1", m.numRows,
                            [r \in Rows(m) |-> d0[r]])
       /\ diag0 = diag
  /\ damping_factor \in Dampings
  /\ b = Buffer(bstride * NumRHS, lay.rhs)
  /\ xpre = x
  /\ writers = [k \in DOMAIN x |-> <<>>]

InitJacobi ==
  \E m \in Matrices, lay \in Layouts :
    /\ kernel \in JacobiOps
    /\ aliased \in BOOLEAN
    /\ x0 = Buffer((m.numRows + lay.pad) * NumRHS, lay.iter)
    /\ x = IF aliased THEN x0 ELSE Buffer((m.numRows + lay.pad) * NumRHS, "down")
    /\ InitVectors(m, lay)

InitGaussSeidel ==
  \E m \in Matrices, lay \in Layouts :
    /\ kernel \in GaussSeidelOps
    /\ aliased = FALSE
    /\ x = Buffer((m.numRows + lay.pad) * NumRHS, lay.iter)
    /\ x0 = <<>>
    /\ InitVectors(m, lay)

Init == InitExtract \/ InitJacobi \/ InitGaussSeidel

(***************************************************************************)
(* The dispatcher and the steps of execute()                               *)
(***************************************************************************)
Min(S) == CHOOSE a \in S : \A c \in S : a <= c

InFlight == DOMAIN run

Drop(i) == [j \in InFlight \ {i} |-> run[j]]

Put(i, rec) == [j \in InFlight \cup {i} |-> IF j = i THEN rec ELSE run[j]]

\* x0j reading the output buffer whatever x0 is.
X0Buf_Output == x

\* x0j reading a buffer of its own even when x0 is x.
X0Buf_Copy == x0

\* What x0j reads: the x buffer itself when the two pointers are equal.
X0Buf == IF aliased THEN x ELSE x0

\* The dispatcher calls execute(i) on a free unit; the call runs up to its
\* loop: row and rhs are computed, tmp = bj[row], c = offsets[row] or j = 0.
Invoke(i) ==
  /\ i \in todo
  /\ Cardinality(InFlight) < (IF ordered THEN 1 ELSE MaxUnits)
  /\ ordered => i = Min(todo)
  /\ todo' = todo \ {i}
  /\ LET row == FlatRow(i, numRows)
         rhs == FlatRhs(i, numRows)
     IN  run' = Put(i, [pos |-> LoopStart(kernel, row),
                        tmp |-> IF kernel \in ExtractOps THEN R(0)
                                ELSE b[ColBase(rhs, bstride) + row]])
  /\ UNCHANGED <<fields, diag, x, x0, sweep, xpre, writers>>

\* The extractor without its break: the scan goes on after a store.
ExtractStep_NoBreak(i) ==
  /\ kernel \in ExtractOps
  /\ i \in InFlight
  /\ LET row == i
         pos == run[i].pos
     IN  IF InLoop(kernel, row, pos)
         THEN /\ run' = Put(i, [run[i] EXCEPT !.pos = pos + 1])
              /\ IF row = EntryInd(kernel, row, pos)
                 THEN /\ diag' = [diag EXCEPT ![row] = EntryVal(kernel, row, pos)]
                      /\ writers' = [writers EXCEPT ![row] = Append(@, i)]
                 ELSE UNCHANGED <<diag, writers>>
         ELSE /\ run' = Drop(i)
              /\ UNCHANGED <<diag, writers>>
  /\ UNCHANGED <<fields, x, x0, todo, sweep, xpre>>

\* One test of the extractor's loop: a store to diag[row] and break, the next
\* entry, or the end of the row.
ExtractStep(i) ==
  /\ kernel \in ExtractOps
  /\ i \in InFlight
  /\ LET row == i
         pos == run[i].pos
     IN  IF InLoop(kernel, row, pos)
         THEN IF row = EntryInd(kernel, row, pos)
              THEN /\ diag' = [diag EXCEPT ![row] = EntryVal(kernel, row, pos)]
                   /\ writers' = [writers EXCEPT ![row] = Append(@, i)]
                   /\ run' = Drop(i)
              ELSE /\ run' = Put(i, [run[i] EXCEPT !.pos = pos + 1])
                   /\ UNCHANGED <<diag, writers>>
         ELSE /\ run' = Drop(i)
              /\ UNCHANGED <<diag, writers>>
  /\ UNCHANGED <<fields, x, x0, todo, sweep, xpre>>

\* One iteration of the Jacobi loop.
JacobiLoop(i) ==
  /\ kernel \in JacobiOps
  /\ i \in InFlight
  /\ LET row == FlatRow(i, numRows)
         rhs == FlatRhs(i, numRows)
         pos == run[i].pos
     IN  /\ InLoop(kernel, row, pos)
         /\ run' = Put(i, [pos |-> pos + 1,
                           tmp |-> Accumulate(run[i].tmp, EntryVal(kernel, row, pos),
                                     X0Buf[ColBase(rhs, xstride) + EntryInd(kernel, row, pos)])])
  /\ UNCHANGED <<fields, diag, x, x0, todo, sweep, xpre, writers>>

\* The store that ends the Jacobi execute().
JacobiStore(i) ==
  /\ kernel \in JacobiOps
  /\ i \in InFlight
  /\ LET row == FlatRow(i, numRows)
         rhs == FlatRhs(i, numRows)
         slot == ColBase(rhs, xstride) + row
     IN  /\ ~InLoop(kernel, row, run[i].pos)
         /\ x' = [x EXCEPT ![slot] =
                    JacobiValue(X0Buf[slot], damping_factor, run[i].tmp, diag[row])]
         /\ writers' = [writers EXCEPT ![slot] = Append(@, i)]
  /\ run' = Drop(i)
  /\ UNCHANGED <<fields, diag, x0, todo, sweep, xpre>>

\* The locals of the Gauss-Seidel execute(i) of struct kern after one more
\* iteration of its loop.
GaussSeidelIterate(kern, i) ==
  LET row == FlatRow(i, numRows)
      rhs == FlatRhs(i, numRows)
      pos == run[i].pos
  IN  [pos |-> pos + 1,
       tmp |-> Accumulate(run[i].tmp, EntryVal(kern, row, pos),
                          x[ColBase(rhs, xstride) + EntryInd(kern, row, pos)])]

\* The x buffer after the store of the Gauss-Seidel execute(i) of struct kern.
GaussSeidelStored(kern, i) ==
  LET row == FlatRow(i, numRows)
      rhs == FlatRhs(i, numRows)
      slot == ColBase(rhs, xstride) + row
  IN  [x EXCEPT ![slot] =
         GaussSeidelValue(x[slot], damping_factor, run[i].tmp, diag[row])]

\* One iteration of the Gauss-Seidel loop.  The read of xj[inds[c]] is one
\* untorn scalar read: it sees the slot as it is before or after any other
\* unit's store, according to the interleaving.
GaussSeidelLoop(i) ==
  /\ kernel \in GaussSeidelOps
  /\ i \in InFlight
  /\ InLoop(kernel, FlatRow(i, numRows), run[i].pos)
  /\ run' = Put(i, GaussSeidelIterate(kernel, i))
  /\ UNCHANGED <<fields, diag, x, x0, todo, sweep, xpre, writers>>

\* The store that ends the Gauss-Seidel execute().
GaussSeidelStore(i) ==
  /\ kernel \in GaussSeidelOps
  /\ i \in InFlight
  /\ ~InLoop(kernel, FlatRow(i, numRows), run[i].pos)
  /\ x' = GaussSeidelStored(kernel, i)
  /\ writers' = [writers EXCEPT
                   ![ColBase(FlatRhs(i, numRows), xstride) + FlatRow(i, numRows)] =
                     Append(@, i)]
  /\ run' = Drop(i)
  /\ UNCHANGED <<fields, diag, x0, todo, sweep, xpre>>

SweepDone == todo = {} /\ InFlight = {}

\* The caller iterates Jacobi: the iterate just computed becomes x0 and the
\* range is dispatched again.
NextIterate ==
  /\ kernel \in JacobiOps
  /\ ~aliased
  /\ SweepDone
  /\ sweep < MaxSweeps
  /\ sweep' = sweep + 1
  /\ x' = x0
  /\ x0' = x
  /\ xpre' = x0
  /\ todo' = Range(kernel, numRows)
  /\ writers' = [k \in DOMAIN x |-> <<>>]
  /\ UNCHANGED <<fields, diag, run>>

Next ==
  \/ \E i \in todo : Invoke(i)
  \/ \E i \in InFlight : ExtractStep(i)
  \/ \E i \in InFlight : JacobiLoop(i)
  \/ \E i \in InFlight : JacobiStore(i)
  \/ \E i \in InFlight : GaussSeidelLoop(i)
  \/ \E i \in InFlight : GaussSeidelStore(i)
  \/ NextIterate

Spec == Init /\ [][Next]_vars

(***************************************************************************)
(* The matrix as mathematics: what the claims speak of                     *)
(***************************************************************************)
Finished(i) == i \notin todo /\ i \notin InFlight

\* Positions of the entries of row r whose column index is r.
DiagPositions(m, r) == {c \in RowRange(m, r) : At(m.inds, c) = r}

HasDiagonal(m, r) == DiagPositions(m, r) # {}

FirstDiagonalValue(m, r) == At(m.vals, Min(DiagPositions(m, r)))

(***************************************************************************)
(* C4: after execute(row) of either diagonal extractor, diag[row] is the    *)
(* value of the first entry in storage order of that row whose column is    *)
(* row, or what it was before the call when the row has no such entry; the  *)
(* slots of rows not executed and the matrix arrays are as they were.       *)
(***************************************************************************)
C4_FirstMatchWins ==
  kernel \in ExtractOps =>
    /\ matA \in Matrices /\ matB = FormatB(matA)
    /\ \A r \in Rows(matA) :
         /\ writers[r] \in {<<>>, <<r>>}
         /\ Finished(r) =>
              diag[r] = IF HasDiagonal(matA, r) THEN FirstDiagonalValue(matA, r)
                        ELSE diag0[r]
         /\ r \in todo => diag[r] = diag0[r]

\* Both extractors have finished a row with two diagonal entries (the first
\* after an off-diagonal one) and a row with none.
C4_Witness ==
  /\ kernel = "ExtractDiagonalOp2"
  /\ matA = MatOdd
  /\ SweepDone
  /\ diag0[0] = R(7)
  /\ diag = [r \in Rows(matA) |-> IF r = 0 THEN R(2) ELSE R(7)]

(***************************************************************************)
(* C5: on a matrix with a diagonal entry in every row, the extractor run    *)
(* over all rows yields the diag vector that the other storage format's     *)
(* extractor yields on the same matrix.                                     *)
(***************************************************************************)
OtherFormat(kern) ==
  IF kern = "ExtractDiagonalOp1" THEN "ExtractDiagonalOp2" ELSE "ExtractDiagonalOp1"

C5_FormatsAgree ==
  (/\ kernel \in ExtractOps
   /\ SweepDone
   /\ \A r \in Rows(matA) : HasDiagonal(matA, r))
  => diag = ExtractAll(OtherFormat(kernel), numRows, diag0)

C5_Witness ==
  /\ kernel = "ExtractDiagonalOp1"
  /\ matA = MatTridiag
  /\ SweepDone
  /\ diag0[1] = R(7)
  /\ diag = [r \in Rows(matA) |-> R(r + 2)]

(***************************************************************************)
(* Sums over the entries of a row, as the claims write them                *)
(***************************************************************************)
\* Sum of v * vec[base + c] over the entries (c, v) of row r at positions S.
RECURSIVE SumOver(_, _, _, _)
SumOver(S, m, vec, base) ==
  IF S = {} THEN R(0)
  ELSE LET c == Min(S)
       IN  RAdd(RMul(At(m.vals, c), vec[base + At(m.inds, c)]),
                SumOver(S \ {c}, m, vec, base))

Columns == 0 .. (NumRHS - 1)

\* The flat index of row r of column k, and its slot in a buffer of stride st.
FlatIndex(r, k) == k * numRows + r
Slot(r, k, st) == k * st + r

\* Column k of a multivector as a vector of its own (base + k * stride).
Column(buf, k, st) == [j \in 0 .. (numRows - 1) |-> buf[k * st + j]]

(***************************************************************************)
(* C1: Jacobi with x and x0 disjoint: once execute(i) has run, under any    *)
(* order and interleaving, x[r,rhs] = x0[r,rhs] + omega * (b[r,rhs] - sum   *)
(* over all entries (c,v) of row r of v * x0[c,rhs]) / diag[r]; slots whose *)
(* index has not been started hold what they held when the sweep began.     *)
(***************************************************************************)
C1_JacobiAnyOrder ==
  (kernel \in JacobiOps /\ ~aliased) =>
    \A r \in Rows(matA), k \in Columns :
      /\ Finished(FlatIndex(r, k)) =>
           x[Slot(r, k, xstride)] =
             RAdd(x0[Slot(r, k, xstride)],
                  RDiv(RMul(damping_factor,
                            RSub(b[Slot(r, k, bstride)],
                                 SumOver(RowRange(matA, r), matA, x0, k * xstride))),
                       diag[r]))
      /\ FlatIndex(r, k) \in todo => x[Slot(r, k, xstride)] = xpre[Slot(r, k, xstride)]

\* A concurrent, unordered Jacobi sweep over the full 2x2 matrix has ended
\* with x = x0 + (b - A x0) / (2 diag) in the padded layout.
C1_Witness ==
  /\ kernel = "DefaultJacobiOp2"
  /\ ~aliased /\ ~ordered
  /\ matA = MatFull
  /\ damping_factor = Frac(1, 2)
  /\ xstride = 3
  /\ SweepDone /\ sweep = 1
  /\ x[Slot(1, 1, xstride)] = RAdd(R(5), RDiv(RMul(Frac(1, 2),
                                   RSub(R(-3), RAdd(R(4), R(15)))), R(3)))

(***************************************************************************)
(* C7: Jacobi with damping factor 0: every slot written holds the value of  *)
(* x0 in that slot, in every sweep of a repeated iteration, provided no     *)
(* diag[r] is zero.                                                         *)
(***************************************************************************)
C7_ZeroDampingKeepsX0 ==
  (kernel \in JacobiOps /\ damping_factor = R(0)
     /\ \A r \in Rows(matA) : diag[r] # R(0)) =>
    \A r \in Rows(matA), k \in Columns :
      Finished(FlatIndex(r, k)) =>
        /\ x[Slot(r, k, xstride)] = X0Buf[Slot(r, k, xstride)]
        /\ x[Slot(r, k, xstride)] = (IF aliased THEN xpre ELSE x0)[Slot(r, k, xstride)]

\* The claim as stated: the same for every diag.
C7_ZeroDampingAllInputs ==
  (kernel \in JacobiOps /\ damping_factor = R(0)) =>
    \A r \in Rows(matA), k \in Columns :
      Finished(FlatIndex(r, k)) =>
        x[Slot(r, k, xstride)] = X0Buf[Slot(r, k, xstride)]

\* The second sweep of an iteration with damping factor 0 has ended.
C7_Witness ==
  /\ kernel = "DefaultJacobiOp1"
  /\ damping_factor = R(0)
  /\ ~aliased
  /\ matA = MatFull
  /\ sweep = 2 /\ SweepDone
  /\ \A k \in Columns : Column(x, k, xstride) = Column(x0, k, xstride)
  /\ x0[1] = R(2)

(***************************************************************************)
(* C8: after one sweep over [0, numRows*NumRHS) every column k of x holds   *)
(* what a 1-right-hand-side sweep over [0, numRows) leaves when applied to  *)
(* column k alone (bases x + k*xstride, b + k*bstride, x0 + k*xstride).     *)
(* Gauss-Seidel is compared under sequential increasing order, the order of *)
(* the single-column sweep.                                                 *)
(***************************************************************************)
RECURSIVE JacobiSingle(_, _, _, _, _)
JacobiSingle(kern, n, xcol, x0col, bcol) ==
  IF n = 0 THEN xcol
  ELSE JacobiExecute(kern, n - 1, JacobiSingle(kern, n - 1, xcol, x0col, bcol),
                     x0col, bcol, numRows, xstride, bstride)

RECURSIVE GaussSeidelSingle(_, _, _, _)
GaussSeidelSingle(kern, n, xcol, bcol) ==
  IF n = 0 THEN xcol
  ELSE GaussSeidelExecute(kern, n - 1, GaussSeidelSingle(kern, n - 1, xcol, bcol),
                          bcol, numRows, xstride, bstride)

C8_ColumnsIndependent ==
  /\ (kernel \in JacobiOps /\ ~aliased /\ SweepDone) =>
       \A k \in Columns :
         Column(x, k, xstride) =
           JacobiSingle(kernel, numRows, Column(xpre, k, xstride),
                        Column(x0, k, xstride), Column(b, k, bstride))
  /\ (kernel \in GaussSeidelOps /\ ordered /\ SweepDone) =>
       \A k \in Columns :
         Column(x, k, xstride) =
           GaussSeidelSingle(kernel, numRows, Column(xpre, k, xstride),
                             Column(b, k, bstride))

\* A Gauss-Seidel sweep over two padded columns of the tridiagonal system
\* has ended and has changed the second column.
C8_Witness ==
  /\ kernel = "DefaultFineGrainHybridGaussSeidelOp1"
  /\ ordered /\ SweepDone
  /\ matA = MatTridiag
  /\ xstride = 4
  /\ damping_factor = R(1)
  /\ Column(x, 1, xstride) # Column(xpre, 1, xstride)
  /\ Column(x, 1, xstride) # Column(x, 0, xstride)

(***************************************************************************)
(* C10: with x0 == x, every step of the Jacobi execute(i) changes the state *)
(* as the same step of the Gauss-Seidel execute(i) of the same storage      *)
(* format does: each loop iteration leaves the same locals, and the store   *)
(* leaves the same buffer.                                                  *)
(***************************************************************************)
Twin(kern) ==
  IF kern = "DefaultJacobiOp1" THEN "DefaultFineGrainHybridGaussSeidelOp1"
  ELSE "DefaultFineGrainHybridGaussSeidelOp2"

C10_Step ==
  (kernel \in JacobiOps /\ aliased) =>
    /\ \A i \in InFlight :
         IF i \in DOMAIN run'
         THEN \/ run'[i] = run[i]
              \/ /\ InLoop(Twin(kernel), FlatRow(i, numRows), run[i].pos)
                 /\ run'[i] = GaussSeidelIterate(Twin(kernel), i)
         ELSE /\ ~InLoop(Twin(kernel), FlatRow(i, numRows), run[i].pos)
              /\ x' = GaussSeidelStored(Twin(kernel), i)
    /\ InFlight \subseteq DOMAIN run' => x' = x

C10_AliasedJacobiIsGaussSeidel == [][C10_Step]_vars

\* An in-place Jacobi sweep has ended, out of order, and has changed x.
C10_Witness ==
  /\ kernel = "DefaultJacobiOp2"
  /\ aliased /\ ~ordered
  /\ SweepDone
  /\ matA = MatFull
  /\ damping_factor = R(1)
  /\ x # xpre

(***************************************************************************)
(* Gauss-Seidel as mathematics                                             *)
(***************************************************************************)
OffDiagonal(m, r) == {c \in RowRange(m, r) : At(m.inds, c) # r}
Lower(m, r) == {c \in RowRange(m, r) : At(m.inds, c) < r}
Upper(m, r) == {c \in RowRange(m, r) : At(m.inds, c) > r}

\* Every row holds exactly one diagonal entry, not zero, and diag holds it.
DiagonalHeld(m) ==
  \A r \in Rows(m) :
    /\ Cardinality(DiagPositions(m, r)) = 1
    /\ FirstDiagonalValue(m, r) # R(0)
    /\ diag[r] = FirstDiagonalValue(m, r)

LowerTriangular(m) == \A r \in Rows(m) : Upper(m, r) = {}

\* x[r,rhs] + omega * (b[r,rhs] - sum over the entries at positions S of
\* v * x[c,rhs]) / diag[r], on buffer xb.
UpdateOver(S, xb, r, k) ==
  RAdd(xb[Slot(r, k, xstride)],
       RDiv(RMul(damping_factor,
                 RSub(b[Slot(r, k, bstride)], SumOver(S, matA, xb, k * xstride))),
            diag[r]))

\* The textbook sweep on one column after its first n rows: row r becomes
\* (1 - omega) * old[r] + omega * (b[r] - sum over c < r of A[r,c] * new[c]
\*                                      - sum over c > r of A[r,c] * old[c]) / A[r,r].
RECURSIVE Textbook(_, _, _)
Textbook(n, old, bcol) ==
  IF n = 0 THEN old
  ELSE LET new == Textbook(n - 1, old, bcol)
           r == n - 1
       IN  [new EXCEPT ![r] =
              RAdd(RMul(RSub(R(1), damping_factor), old[r]),
                   RDiv(RMul(damping_factor,
                             RSub(RSub(bcol[r], SumOver(Lower(matA, r), matA, new, 0)),
                                  SumOver(Upper(matA, r), matA, old, 0))),
                        FirstDiagonalValue(matA, r)))]

(***************************************************************************)
(* C2: a Gauss-Seidel execute(i) that runs alone adds to x[r,rhs] the value *)
(* omega * tmp / diag[r] with tmp = b[r,rhs] minus the sum of v * x[c,rhs]  *)
(* over ALL entries (c,v) of row r, the row's diagonal entry included, and  *)
(* changes no other slot.                                                   *)
(***************************************************************************)
C2_AllEntriesStep ==
  (kernel \in GaussSeidelOps /\ ordered) =>
    \A i \in InFlight : i \notin DOMAIN run' =>
      x' = [x EXCEPT ![Slot(i % numRows, i \div numRows, xstride)] =
              UpdateOver(RowRange(matA, i % numRows), x, i % numRows, i \div numRows)]

C2_AllEntries == [][C2_AllEntriesStep]_vars

\* The claim as stated: the sum leaves out the entries of column r.
C2_OffDiagonalStep ==
  (kernel \in GaussSeidelOps /\ ordered) =>
    \A i \in InFlight : i \notin DOMAIN run' =>
      x' = [x EXCEPT ![Slot(i % numRows, i \div numRows, xstride)] =
              UpdateOver(OffDiagonal(matA, i % numRows), x, i % numRows, i \div numRows)]

C2_DiagonalExcluded == [][C2_OffDiagonalStep]_vars

\* execute(0) has run alone on the tridiagonal system from x = (1, 2, 3),
\* b[0] = 3: x[0] = 1 + (1/2) * (3 - (2*1 + 5*2)) / 2.
C2_Witness ==
  /\ kernel = "DefaultFineGrainHybridGaussSeidelOp1"
  /\ ordered
  /\ matA = MatTridiag
  /\ damping_factor = Frac(1, 2)
  /\ xpre[0] = R(1)
  /\ writers[0] = <<0>>
  /\ x[0] = Frac(-5, 4)

(***************************************************************************)
(* C3: Gauss-Seidel run by one sequential unit in increasing index order:   *)
(* while execute runs for row r of a column, every slot c < r of the column *)
(* holds the value stored earlier in this sweep and every slot c > r holds  *)
(* the value from before the sweep; with the matrix diagonal in diag, the   *)
(* slots hold the textbook values and the sweep ends on the textbook result.*)
(***************************************************************************)
C3_SequentialIsTextbook ==
  (kernel \in GaussSeidelOps /\ ordered) =>
    /\ \A i \in InFlight :
         LET r == i % numRows
             k == i \div numRows
         IN  \A c \in Rows(matA) :
               /\ c < r => /\ writers[Slot(c, k, xstride)] = <<FlatIndex(c, k)>>
                           /\ DiagonalHeld(matA) =>
                                x[Slot(c, k, xstride)] =
                                  Textbook(r, Column(xpre, k, xstride),
                                           Column(b, k, bstride))[c]
               /\ c > r => /\ writers[Slot(c, k, xstride)] = <<>>
                           /\ x[Slot(c, k, xstride)] = xpre[Slot(c, k, xstride)]
    /\ (SweepDone /\ DiagonalHeld(matA)) =>
         \A k \in Columns :
           Column(x, k, xstride) =
             Textbook(numRows, Column(xpre, k, xstride), Column(b, k, bstride))

\* execute is in its loop for the middle row of the second column of the
\* tridiagonal system: row 0 is new, row 2 is old.
C3_Witness ==
  /\ kernel = "DefaultFineGrainHybridGaussSeidelOp2"
  /\ ordered
  /\ matA = MatTridiag
  /\ damping_factor = R(1)
  /\ 4 \in InFlight /\ run[4].pos = 2
  /\ x[Slot(0, 1, xstride)] # xpre[Slot(0, 1, xstride)]
  /\ x[Slot(2, 1, xstride)] = xpre[Slot(2, 1, xstride)]

(***************************************************************************)
(* C6: Gauss-Seidel in sequential increasing order on a matrix with only    *)
(* diagonal and strictly lower entries, one nonzero diagonal entry per row  *)
(* held in diag, and damping factor 1: after one sweep                      *)
(* x[r] = (b[r] - sum over c < r of A[r,c] * x[c]) / A[r,r] for every row.  *)
(***************************************************************************)
TriangularSolved ==
  \A r \in Rows(matA), k \in Columns :
    x[Slot(r, k, xstride)] =
      RDiv(RSub(b[Slot(r, k, bstride)], SumOver(Lower(matA, r), matA, x, k * xstride)),
           FirstDiagonalValue(matA, r))

C6_TriangularSolveUndamped ==
  (/\ kernel \in GaussSeidelOps /\ ordered /\ SweepDone
   /\ LowerTriangular(matA) /\ DiagonalHeld(matA)
   /\ damping_factor = R(1))
  => TriangularSolved

\* The claim as stated: the same for every damping factor.
C6_TriangularSolveAnyDamping ==
  (/\ kernel \in GaussSeidelOps /\ ordered /\ SweepDone
   /\ LowerTriangular(matA) /\ DiagonalHeld(matA))
  => TriangularSolved

\* The sweep over the lower triangular system has ended from x = (1, 2, 3),
\* b = (3, 1, -1): x = (3/2, -1/8, -43/40).
C6_Witness ==
  /\ kernel = "DefaultFineGrainHybridGaussSeidelOp1"
  /\ ordered /\ SweepDone
  /\ matA = MatLower
  /\ damping_factor = R(1)
  /\ xpre[2] = R(3)
  /\ Column(x, 0, xstride) = [j \in 0 .. 2 |->
                                 IF j = 0 THEN Frac(3, 2)
                                 ELSE IF j = 1 THEN Frac(-1, 8) ELSE Frac(-43, 40)]

(***************************************************************************)
(* C9: in a Gauss-Seidel sweep, under any order and interleaving, slot      *)
(* x[r,rhs] is stored to by the execute of index rhs*numRows + r alone,     *)
(* once, and is stored to when that execute has finished; no other address  *)
(* of the buffer is stored to.                                              *)
(***************************************************************************)
C9_OneWriterPerSlot ==
  kernel \in GaussSeidelOps =>
    /\ \A r \in Rows(matA), k \in Columns :
         writers[Slot(r, k, xstride)] =
           IF Finished(FlatIndex(r, k)) THEN <<FlatIndex(r, k)>> ELSE <<>>
    /\ \A a \in DOMAIN x :
         (\A r \in Rows(matA), k \in Columns : a # Slot(r, k, xstride)) =>
           writers[a] = <<>> /\ x[a] = xpre[a]

\* A concurrent sweep over padded columns has ended out of order: both
\* units were in flight with index 3 started before index 0.
C9_Witness ==
  /\ kernel = "DefaultFineGrainHybridGaussSeidelOp2"
  /\ ~ordered
  /\ xstride = 3
  /\ todo = {0}
  /\ Cardinality(InFlight) = MaxUnits
  /\ writers[Slot(1, 1, xstride)] = <<3>>

====
